---- MODULE Spec2Model ----
(***************************************************************************)
(* A model of gunsch/gamepad: the GamepadManager (gamepad/gamepadapi.js),  *)
(* the Gamepad wrapper (gamepad/pad.js) and the GamepadEvent constructor   *)
(* (gamepad/eventtype.js).                                                 *)
(*                                                                         *)
(* Numbers are fixed-point: the integer n stands for n/One, so that One is *)
(* the number 1.0, button values range over 0..One, axis values over       *)
(* -One..One.  JavaScript arrays are functions over 0..n-1 (a sparse array *)
(* is a function over the indices that were assigned).  A read of          *)
(* rawGamepad.buttons / rawGamepad.axes yields the values the device has   *)
(* at the time of the read, as a fresh array.                              *)
(***************************************************************************)
EXTENDS Integers, Sequences, FiniteSets, TLC

\* ------------------------------------------------------------------ bounds

\* Number of slots of the host's gamepad list.
MaxSlots == 2
\* Number of buttons and of axes of every raw device.
NumButtons == 2
NumAxes == 2

\* ------------------------------------------------------- program constants

\* The number 1.0 in fixed point (the upper limit of a threshold).
One == 20
\* The defaults 0.5 and 0.1 of the manager and of a new wrapper.
DefaultButtonThreshold == 10
DefaultJoystickThreshold == 2
PadButtonThreshold == 10
PadJoystickThreshold == 2

\* The raw device objects the host may hand out, and the empty slot.
Devices == {"A", "B"}
Null == "null"

Slots == 0 .. (MaxSlots - 1)
ButtonIdx == 0 .. (NumButtons - 1)
AxisIdx == 0 .. (NumAxes - 1)

\* gamepad.EventType
CONNECTED == "gamepadConnected"
DISCONNECTED == "gamepadDisconnected"
BUTTON_DOWN == "gamepadButtonDown"
BUTTON_UP == "gamepadButtonReleased"
JOYSTICK_MOVED == "gamepadJoystickMoved"

\* The strings setThresholds throws, and no exception.
NoErr == "none"
ErrButton == "Invalid button threshold. Value must be in the range [0.0, 1.0]."
ErrJoystick == "Invalid joystick threshold. Value must be in the range [0.0, 1.0]."

\* The names of the two tick listeners of the manager.
ConnListener == "pollForConnections_"
ButtonListener == "pollForButtons_"

VARIABLES
  rawGamepads,               \* host: what navigator.webkitGetGamepads() returns
  rawButtons,                \* host: device -> its current button values
  rawAxes,                   \* host: device -> its current axis values
  hasGetGamepads,            \* host: navigator.webkitGetGamepads exists
  knownRawGamepads_,         \* manager: raw devices seen by the last pass
  gamepads_,                 \* manager: sparse array slot -> wrapper
  defaultButtonThreshold_,   \* manager
  defaultJoystickThreshold_, \* manager
  tickListeners,             \* listeners of pollingTimer_'s TICK, in order
  timerEnabled,              \* pollingTimer_ is started
  events,                    \* dispatches made by the last operation, in order
  thrown,                    \* what the last operation threw
  lastOp                     \* the last operation and its arguments

vars == <<rawGamepads, rawButtons, rawAxes, hasGetGamepads, knownRawGamepads_,
          gamepads_, defaultButtonThreshold_, defaultJoystickThreshold_,
          tickListeners, timerEnabled, events, thrown, lastOp>>

hostVars == <<rawGamepads, rawButtons, rawAxes, hasGetGamepads>>
timerVars == <<tickListeners, timerEnabled>>

\* ------------------------------------------------------------- JS values

JsNull == [t |-> "null"]
JsNaN == [t |-> "nan"]
JsNum(n) == [t |-> "num", n |-> n]
JsUndefined == [t |-> "undefined"]
JsBool(b) == [t |-> "boolean", b |-> b]

\* The JavaScript expression  x || d  for a number, null, undefined or NaN x.
OrDefault(x, d) == IF x.t = "num" /\ x.n # 0 THEN x.n ELSE d

Abs(n) == IF n < 0 THEN -n ELSE n

\* A rounding that takes a tie away from zero.
MathRound_HalfAwayFromZero(v, t) ==
  IF v >= 0 THEN (2 * v + t) \div (2 * t) ELSE -((t - 2 * v) \div (2 * t))

\* Math.round(v / t) for t > 0: the nearest integer, a tie towards +Infinity.
MathRound(v, t) == (2 * v + t) \div (2 * t)

ArrayLength(a) == Cardinality(DOMAIN a)

RECURSIVE Concat(_, _, _)
Concat(parts, i, n) ==
  IF i >= n THEN <<>> ELSE parts[i] \o Concat(parts, i + 1, n)

\* ------------------------------------------------------------ eventtype.js

\* new gamepad.GamepadEvent(type, gamepad, opt_button, opt_axis, opt_value),
\* opt_timestamp never being passed.  The wrapper the event relates to is
\* named by its slot and the raw device it wraps.
GamepadEvent(type, slot, pad, opt_button, opt_axis, opt_value) ==
  [type |-> type,
   gamepad |-> [slot |-> slot, raw |-> pad.gamepad_],
   button |-> OrDefault(opt_button, -1),
   axis |-> OrDefault(opt_axis, -1),
   value |-> OrDefault(opt_value, 0),
   timestamp |-> OrDefault(JsNull, -1)]

\* target.dispatchEvent(event): one entry of the log of dispatches.  obj
\* numbers the event object, so that one object dispatched twice shows; seen
\* is what a listener called with the event reads of the thresholds of
\* event.gamepad; index is the index the loop that dispatches stands at.
Dispatch(target, obj, event, pad, index) ==
  [target |-> target,
   obj |-> obj,
   event |-> event,
   seen |-> [buttonThreshold_ |-> pad.buttonThreshold_,
             joystickThreshold_ |-> pad.joystickThreshold_],
   index |-> index]

\* ------------------------------------------------------------------ pad.js

\* new gamepad.Gamepad(rawGamepad)
NewGamepad(raw) ==
  [gamepad_ |-> raw,
   buttonThreshold_ |-> PadButtonThreshold,
   joystickThreshold_ |-> PadJoystickThreshold,
   lastButtonSnapshot_ |-> rawButtons[raw],
   lastAxisSnapshot_ |-> rawAxes[raw]]

\* A range test that forgets the upper limit.
InvalidThreshold_NoUpperLimit(t) == t < 0

\* The range test of both setThresholds.
InvalidThreshold(t) == t < 0 \/ t > One

\* What setThresholds(buttonThreshold, joystickThreshold) throws.
ThresholdError(buttonThreshold, joystickThreshold) ==
  IF InvalidThreshold(buttonThreshold) THEN ErrButton
  ELSE IF InvalidThreshold(joystickThreshold) THEN ErrJoystick
  ELSE NoErr

\* A wrapper's setThresholds that assigns whatever it is given.
GamepadSetThresholds_Unchecked(pad, buttonThreshold, joystickThreshold) ==
  [pad EXCEPT !.buttonThreshold_ = buttonThreshold,
              !.joystickThreshold_ = joystickThreshold]

\* A wrapper's setThresholds that takes new snapshots with the thresholds.
GamepadSetThresholds_Resnapshot(pad, buttonThreshold, joystickThreshold) ==
  IF ThresholdError(buttonThreshold, joystickThreshold) # NoErr
  THEN pad
  ELSE [pad EXCEPT !.buttonThreshold_ = buttonThreshold,
                   !.joystickThreshold_ = joystickThreshold,
                   !.lastButtonSnapshot_ = rawButtons[pad.gamepad_],
                   !.lastAxisSnapshot_ = rawAxes[pad.gamepad_]]

\* gamepad.Gamepad.prototype.setThresholds: the wrapper afterwards.
GamepadSetThresholds(pad, buttonThreshold, joystickThreshold) ==
  IF ThresholdError(buttonThreshold, joystickThreshold) # NoErr
  THEN pad
  ELSE [pad EXCEPT !.buttonThreshold_ = buttonThreshold,
                   !.joystickThreshold_ = joystickThreshold]

\* An axis test that fires on a change equal to the threshold.
AxisMoved_AtLeast(pad, axes, i) ==
  Abs(axes[i] - pad.lastAxisSnapshot_[i]) >= pad.joystickThreshold_

\* The test of poll() on axis i.
AxisMoved(pad, axes, i) ==
  Abs(axes[i] - pad.lastAxisSnapshot_[i]) > pad.joystickThreshold_

\* adjustedValue of poll(): a division by zero makes it NaN.
AdjustedValue(axisValue, joystickThreshold) ==
  IF joystickThreshold = 0 THEN JsNaN
  ELSE JsNum(MathRound(axisValue, joystickThreshold) * joystickThreshold)

\* A pressed test that needs the value above the threshold.
ButtonPressed_Above(pad, buttons, i) ==
  /\ buttons[i] > pad.buttonThreshold_
  /\ pad.lastButtonSnapshot_[i] < pad.buttonThreshold_

\* The tests of poll() on button i.
ButtonPressed(pad, buttons, i) ==
  /\ buttons[i] >= pad.buttonThreshold_
  /\ pad.lastButtonSnapshot_[i] < pad.buttonThreshold_

ButtonReleased(pad, buttons, i) ==
  /\ buttons[i] < pad.buttonThreshold_
  /\ pad.lastButtonSnapshot_[i] >= pad.buttonThreshold_

\* The events poll() creates at index i of the axes and of the buttons, in
\* order, each with the index it was created at.
AxisEvents(slot, pad, axes, i) ==
  IF AxisMoved(pad, axes, i)
  THEN <<[index |-> i,
          event |-> GamepadEvent(JOYSTICK_MOVED, slot, pad, JsNull, JsNum(i),
                      AdjustedValue(axes[i], pad.joystickThreshold_))]>>
  ELSE <<>>

ButtonEvents(slot, pad, buttons, i) ==
  (IF ButtonPressed(pad, buttons, i)
   THEN <<[index |-> i,
           event |-> GamepadEvent(BUTTON_DOWN, slot, pad,
                                  JsNum(i), JsNull, JsNum(1))]>>
   ELSE <<>>)
  \o
  (IF ButtonReleased(pad, buttons, i)
   THEN <<[index |-> i,
           event |-> GamepadEvent(BUTTON_UP, slot, pad,
                                  JsNum(i), JsNull, JsNum(0))]>>
   ELSE <<>>)

\* All events of one poll() of the wrapper at slot: the axes, then the buttons.
PollEvents(slot, pad) ==
  LET axes == rawAxes[pad.gamepad_]
      buttons == rawButtons[pad.gamepad_]
  IN  Concat([i \in DOMAIN axes |-> AxisEvents(slot, pad, axes, i)],
             0, ArrayLength(axes))
      \o
      Concat([i \in DOMAIN buttons |-> ButtonEvents(slot, pad, buttons, i)],
             0, ArrayLength(buttons))

\* A poll() that replaces only the snapshot entries whose test fired.
PollPad_PerElement(pad) ==
  LET axes == rawAxes[pad.gamepad_]
      buttons == rawButtons[pad.gamepad_]
  IN  [pad EXCEPT
         !.lastAxisSnapshot_ =
            [i \in DOMAIN axes |->
               IF AxisMoved(pad, axes, i) THEN axes[i] ELSE @[i]],
         !.lastButtonSnapshot_ =
            [i \in DOMAIN buttons |->
               IF ButtonPressed(pad, buttons, i)
                  \/ ButtonReleased(pad, buttons, i)
               THEN buttons[i] ELSE @[i]]]

\* A poll() that never records what it read.
PollPad_KeepsSnapshots(pad) == pad

\* A poll() that records the buttons only when one was released.
PollPad_OnRelease(pad) ==
  LET axes == rawAxes[pad.gamepad_]
      buttons == rawButtons[pad.gamepad_]
  IN  [pad EXCEPT
         !.lastAxisSnapshot_ =
            IF \E i \in DOMAIN axes : AxisMoved(pad, axes, i)
            THEN axes ELSE @,
         !.lastButtonSnapshot_ =
            IF \E i \in DOMAIN buttons : ButtonReleased(pad, buttons, i)
            THEN buttons ELSE @]

\* A poll() that records the axes when a button event occurred.
PollPad_AxesOnButtonEvent(pad) ==
  LET axes == rawAxes[pad.gamepad_]
      buttons == rawButtons[pad.gamepad_]
      buttonEventOccurred ==
        \E i \in DOMAIN buttons :
          ButtonPressed(pad, buttons, i) \/ ButtonReleased(pad, buttons, i)
  IN  [pad EXCEPT
         !.lastAxisSnapshot_ = IF buttonEventOccurred THEN axes ELSE @,
         !.lastButtonSnapshot_ = IF buttonEventOccurred THEN buttons ELSE @]

\* The wrapper after one poll().
PollPad(pad) ==
  LET axes == rawAxes[pad.gamepad_]
      buttons == rawButtons[pad.gamepad_]
      axisEventOccurred == \E i \in DOMAIN axes : AxisMoved(pad, axes, i)
      buttonEventOccurred ==
        \E i \in DOMAIN buttons :
          ButtonPressed(pad, buttons, i) \/ ButtonReleased(pad, buttons, i)
  IN  [pad EXCEPT
         !.lastAxisSnapshot_ = IF axisEventOccurred THEN axes ELSE @,
         !.lastButtonSnapshot_ = IF buttonEventOccurred THEN buttons ELSE @]

\* ------------------------------------------------------------ gamepadapi.js

\* The manager's fields, the dispatches made so far and the exception thrown,
\* as one value threaded through the handlers of an operation.
Manager ==
  [knownRawGamepads_ |-> knownRawGamepads_,
   gamepads_ |-> gamepads_,
   defaultButtonThreshold_ |-> defaultButtonThreshold_,
   defaultJoystickThreshold_ |-> defaultJoystickThreshold_,
   log |-> <<>>,
   err |-> NoErr]

\* array[i] = v
Put(array, i, v) ==
  [k \in DOMAIN array \cup {i} |-> IF k = i THEN v ELSE array[k]]

\* array[i], undefined and null both being Null
At(array, i) == IF i \in DOMAIN array THEN array[i] ELSE Null

\* The log after the wrapper pad dispatches each of the events it created,
\* once, on itself.
DispatchOnGamepad(log, pad, created) ==
  log \o [k \in 1 .. Len(created) |->
            Dispatch("gamepad", Len(log) + k, created[k].event, pad,
                     created[k].index)]

\* pollForConnections_, "Gamepad i was disconnected": the DISCONNECTED
\* event of the wrapper at slot i, dispatched on the wrapper and then on the
\* manager, when a raw device was known at i and a wrapper is held there.
DisconnectGamepad(m, i) ==
  LET event == GamepadEvent(DISCONNECTED, i, m.gamepads_[i],
                            JsNull, JsNull, JsNull)
  IN  IF At(m.knownRawGamepads_, i) # Null /\ i \in DOMAIN m.gamepads_
      THEN [m EXCEPT !.log =
              @ \o <<Dispatch("gamepad", Len(m.log) + 1, event,
                              m.gamepads_[i], i),
                     Dispatch("manager", Len(m.log) + 1, event,
                              m.gamepads_[i], i)>>]
      ELSE m

\* pollForConnections_, "New gamepad was connected": a new wrapper at slot
\* i with the manager's default thresholds, then its CONNECTED event on the
\* manager, when the list holds a raw device at i.
ConnectGamepad(m, i) ==
  LET created == NewGamepad(rawGamepads[i])
      err == ThresholdError(m.defaultButtonThreshold_,
                            m.defaultJoystickThreshold_)
      pad == GamepadSetThresholds(created, m.defaultButtonThreshold_,
                                  m.defaultJoystickThreshold_)
  IN  IF rawGamepads[i] = Null THEN m
      ELSE IF err # NoErr
      THEN [m EXCEPT !.gamepads_ = Put(@, i, created), !.err = err]
      ELSE [m EXCEPT
              !.gamepads_ = Put(@, i, pad),
              !.log = @ \o <<Dispatch("manager", Len(m.log) + 1,
                               GamepadEvent(CONNECTED, i, pad,
                                            JsNull, JsNull, JsNull),
                               pad, i)>>]

\* A loop body that connects only where it has not disconnected.
ConnectionStep_ElseIf(m, i) ==
  IF m.err # NoErr \/ rawGamepads[i] = At(m.knownRawGamepads_, i) THEN m
  ELSE IF At(m.knownRawGamepads_, i) # Null /\ i \in DOMAIN m.gamepads_
  THEN DisconnectGamepad(m, i)
  ELSE ConnectGamepad(m, i)

\* A loop body that does not compare the raw device with the known one.
ConnectionStep_Always(m, i) ==
  IF m.err # NoErr THEN m ELSE ConnectGamepad(DisconnectGamepad(m, i), i)

\* The body of the loop of pollForConnections_ for slot i.
ConnectionStep(m, i) ==
  IF m.err # NoErr \/ rawGamepads[i] = At(m.knownRawGamepads_, i) THEN m
  ELSE ConnectGamepad(DisconnectGamepad(m, i), i)

\* A loop over the slots from 0 up to i.
RECURSIVE ConnectionLoop_Ascending(_, _)
ConnectionLoop_Ascending(m, i) ==
  IF i < 0 THEN m ELSE ConnectionStep(ConnectionLoop_Ascending(m, i - 1), i)

\* The loop of pollForConnections_, from slot i down to slot 0.
RECURSIVE ConnectionLoop(_, _)
ConnectionLoop(m, i) ==
  IF i < 0 THEN m ELSE ConnectionLoop(ConnectionStep(m, i), i - 1)

\* A pass that does not store the list it read.
pollForConnections_KeepsKnown(m) ==
  IF hasGetGamepads
  THEN ConnectionLoop(m, ArrayLength(rawGamepads) - 1)
  ELSE m

\* A pass that reads the list of a host that has none to give.
pollForConnections_Unguarded(m) ==
  LET looped == ConnectionLoop(m, ArrayLength(rawGamepads) - 1)
  IN  IF looped.err # NoErr THEN looped
      ELSE [looped EXCEPT !.knownRawGamepads_ = rawGamepads]

\* gamepad.GamepadManager.prototype.pollForConnections_
pollForConnections_(m) ==
  IF hasGetGamepads
  THEN LET looped == ConnectionLoop(m, ArrayLength(rawGamepads) - 1)
       IN  IF looped.err # NoErr THEN looped
           ELSE [looped EXCEPT !.knownRawGamepads_ = rawGamepads]
  ELSE m

\* The loop of pollForButtons_, from slot i up: the wrappers that exist
\* are polled, a slot never assigned is skipped.
RECURSIVE ButtonsLoop(_, _)
ButtonsLoop(m, i) ==
  IF i >= MaxSlots THEN m
  ELSE IF i \notin DOMAIN m.gamepads_ THEN ButtonsLoop(m, i + 1)
  ELSE ButtonsLoop(
         [m EXCEPT
            !.log = DispatchOnGamepad(@, m.gamepads_[i],
                                      PollEvents(i, m.gamepads_[i])),
            !.gamepads_[i] = PollPad(@)],
         i + 1)

\* gamepad.GamepadManager.prototype.pollForButtons_
pollForButtons_(m) == ButtonsLoop(m, 0)

\* A manager's setThresholds that updates the defaults and leaves the
\* wrappers it holds alone.
setThresholds_DefaultsOnly(m, buttonThreshold, joystickThreshold) ==
  LET err == ThresholdError(buttonThreshold, joystickThreshold)
  IN  IF err # NoErr THEN [m EXCEPT !.err = err]
      ELSE [m EXCEPT
              !.defaultButtonThreshold_ = buttonThreshold,
              !.defaultJoystickThreshold_ = joystickThreshold]

\* gamepad.GamepadManager.prototype.setThresholds
setThresholds(m, buttonThreshold, joystickThreshold) ==
  LET err == ThresholdError(buttonThreshold, joystickThreshold)
  IN  IF err # NoErr THEN [m EXCEPT !.err = err]
      ELSE [m EXCEPT
              !.defaultButtonThreshold_ = buttonThreshold,
              !.defaultJoystickThreshold_ = joystickThreshold,
              !.gamepads_ =
                 [i \in DOMAIN @ |->
                    GamepadSetThresholds(@[i], buttonThreshold,
                                         joystickThreshold)]]

\* A listen that adds the listener whether or not it is held already.
Listen_Again(listeners, f) == Append(listeners, f)

\* goog.events.listen / unlisten of one listener on the timer's TICK: a
\* listener is held once, listeners are called in the order they were added.
Listen(listeners, f) ==
  IF \E k \in 1 .. Len(listeners) : listeners[k] = f
  THEN listeners ELSE Append(listeners, f)

Unlisten(listeners, f) == SelectSeq(listeners, LAMBDA g : g # f)

\* enableGamepadPolling that takes a false second argument for an omitted
\* one (opt_enableGamepadPolling || enableConnectionPolling).
EnableGamepadPolling_Or(enableConnectionPolling, opt_enableGamepadPolling) ==
  IF opt_enableGamepadPolling.t = "boolean" /\ opt_enableGamepadPolling.b
  THEN TRUE ELSE enableConnectionPolling

\* enableGamepadPolling of pollGamepads: the second argument when it is a
\* boolean, the first otherwise.
EnableGamepadPolling(enableConnectionPolling, opt_enableGamepadPolling) ==
  IF opt_enableGamepadPolling.t = "boolean"
  THEN opt_enableGamepadPolling.b ELSE enableConnectionPolling

\* A timer that follows connection polling alone.
TimerStarted_ConnectionsOnly(enableConnectionPolling, enableGamepadPolling) ==
  enableConnectionPolling

\* Whether pollGamepads leaves pollingTimer_ started (or stopped).
TimerStarted(enableConnectionPolling, enableGamepadPolling) ==
  enableConnectionPolling \/ enableGamepadPolling

\* gamepad.GamepadManager.prototype.getGamepad
getGamepad(id) == IF id \in DOMAIN gamepads_ THEN gamepads_[id] ELSE JsUndefined

\* One listener of the timer's TICK, run on m.
RunListener(m, f) ==
  IF m.err # NoErr THEN m
  ELSE IF f = ConnListener THEN pollForConnections_(m)
  ELSE pollForButtons_(m)

\* pollingTimer_ dispatching TICK to the listeners from the k-th on.
RECURSIVE DispatchTick(_, _, _)
DispatchTick(m, listeners, k) ==
  IF k > Len(listeners) THEN m
  ELSE DispatchTick(RunListener(m, listeners[k]), listeners, k + 1)

\* ----------------------------------------------------------------- actions

\* An operation, the slot of the wrapper it is called on (-1: none), and,
\* for a poll or a tick, whether the operation before it was the same call.
Op(name, slot) ==
  [name |-> name,
   slot |-> slot,
   again |-> /\ name \in {"gamepad.poll", "tick"}
             /\ lastOp.name = name
             /\ lastOp.slot = slot]

\* The manager's fields, the log and the exception after an operation.
Commit(m) ==
  /\ knownRawGamepads_' = m.knownRawGamepads_
  /\ gamepads_' = m.gamepads_
  /\ defaultButtonThreshold_' = m.defaultButtonThreshold_
  /\ defaultJoystickThreshold_' = m.defaultJoystickThreshold_
  /\ events' = m.log
  /\ thrown' = m.err

\* The host replaces the list navigator.webkitGetGamepads() returns.
HostSetGamepads(list) ==
  /\ rawGamepads' = list
  /\ lastOp' = Op("host", -1)
  /\ events' = <<>>
  /\ thrown' = NoErr
  /\ UNCHANGED <<rawButtons, rawAxes, hasGetGamepads, knownRawGamepads_,
                 gamepads_, defaultButtonThreshold_,
                 defaultJoystickThreshold_, timerVars>>

\* The user moves the buttons and sticks of device d.
HostSetValues(d, buttons, axes) ==
  /\ rawButtons' = [rawButtons EXCEPT ![d] = buttons]
  /\ rawAxes' = [rawAxes EXCEPT ![d] = axes]
  /\ lastOp' = Op("host", -1)
  /\ events' = <<>>
  /\ thrown' = NoErr
  /\ UNCHANGED <<rawGamepads, hasGetGamepads, knownRawGamepads_, gamepads_,
                 defaultButtonThreshold_, defaultJoystickThreshold_,
                 timerVars>>

\* manager.pollGamepads(enableConnectionPolling, opt_enableGamepadPolling);
\* opt_enableGamepadPolling is a boolean or undefined (omitted).
PollGamepads(enableConnectionPolling, opt_enableGamepadPolling) ==
  LET enableGamepadPolling ==
        EnableGamepadPolling(enableConnectionPolling,
                             opt_enableGamepadPolling)
      l1 == IF enableConnectionPolling
            THEN Listen(tickListeners, ConnListener)
            ELSE Unlisten(tickListeners, ConnListener)
      l2 == IF enableGamepadPolling
            THEN Listen(l1, ButtonListener)
            ELSE Unlisten(l1, ButtonListener)
  IN  /\ tickListeners' = l2
      /\ timerEnabled' =
           TimerStarted(enableConnectionPolling, enableGamepadPolling)
      /\ lastOp' = Op("pollGamepads", -1)
      /\ events' = <<>>
      /\ thrown' = NoErr
      /\ UNCHANGED <<hostVars, knownRawGamepads_, gamepads_,
                     defaultButtonThreshold_, defaultJoystickThreshold_>>

\* One tick of pollingTimer_.
Tick ==
  /\ timerEnabled
  /\ Commit(DispatchTick(Manager, tickListeners, 1))
  /\ lastOp' = Op("tick", -1)
  /\ UNCHANGED <<hostVars, timerVars>>

\* manager.setThresholds(b, j)
ManagerSetThresholds(b, j) ==
  /\ Commit(setThresholds(Manager, b, j))
  /\ lastOp' = Op("manager.setThresholds", -1)
  /\ UNCHANGED <<hostVars, timerVars>>

\* manager.getGamepad(i).setThresholds(b, j)
PadSetThresholds(i, b, j) ==
  /\ i \in DOMAIN gamepads_
  /\ Commit([Manager EXCEPT
               !.gamepads_[i] = GamepadSetThresholds(@, b, j),
               !.err = ThresholdError(b, j)])
  /\ lastOp' = Op("gamepad.setThresholds", i)
  /\ UNCHANGED <<hostVars, timerVars>>

\* manager.getGamepad(i).poll()
PadPoll(i) ==
  /\ i \in DOMAIN gamepads_
  /\ Commit([Manager EXCEPT
               !.gamepads_[i] = PollPad(@),
               !.log = DispatchOnGamepad(<<>>, gamepads_[i],
                                         PollEvents(i, gamepads_[i]))])
  /\ lastOp' = Op("gamepad.poll", i)
  /\ UNCHANGED <<hostVars, timerVars>>

\* ------------------------------------------------------------------ inputs

\* The arrays the host may return: at most MaxSlots slots, each empty or
\* holding a device, no device in two slots.
GamepadLists ==
  UNION {{l \in [0 .. (n - 1) -> Devices \cup {Null}] :
            \A i, k \in DOMAIN l : (i # k /\ l[i] # Null) => l[i] # l[k]} :
         n \in 0 .. MaxSlots}

\* The list of a host whose slot 0 holds device A, and the list of a host
\* whose slots 0 and 1 hold A and B.
ListOfA == [i \in {0} |-> "A"]
ListOfAB == [i \in 0 .. 1 |-> IF i = 0 THEN "A" ELSE "B"]

\* Button values 0.3, 0.5 and 0.6, axis values -0.25, 0 and 0.25.
ButtonValues == {6, 10, 12}
AxisValues == {-5, 0, 5}

\* Every reading of the buttons and of the axes of a device.
ButtonFrames == [ButtonIdx -> ButtonValues]
AxisFrames == [AxisIdx -> AxisValues]

\* The device at rest; with every button half pressed; with its first
\* stick pushed one way and the others the other way.
RestButtons == [i \in ButtonIdx |-> 6]
RestAxes == [i \in AxisIdx |-> 0]
HalfButtons == [i \in ButtonIdx |-> 10]
PushedAxes == [i \in AxisIdx |-> IF i = 0 THEN 5 ELSE -5]

\* Arguments of the manager's setThresholds: the two ends of the range each
\* way round, and a first, a second and both arguments out of range.
ThresholdArgs ==
  {<<0, One>>, <<One, 0>>, <<-1, One>>, <<0, One + 1>>, <<One + 1, -1>>}

\* Arguments of a wrapper's setThresholds: the defaults, a button threshold
\* of 0.6 with a joystick threshold of 0.25, and one out of range each.
PadThresholdArgs == {<<10, 2>>, <<12, 5>>, <<-1, 5>>, <<12, One + 1>>}

\* ----------------------------------------------------------- specifications

\* The state after  new gamepad.GamepadManager(), with a host whose devices
\* are at rest.
InitWith(capabilities) ==
  /\ rawGamepads = <<>>
  /\ rawButtons = [d \in Devices |-> RestButtons]
  /\ rawAxes = [d \in Devices |-> RestAxes]
  /\ hasGetGamepads \in capabilities
  /\ knownRawGamepads_ = <<>>
  /\ gamepads_ = <<>>
  /\ defaultButtonThreshold_ = DefaultButtonThreshold
  /\ defaultJoystickThreshold_ = DefaultJoystickThreshold
  /\ tickListeners = <<>>
  /\ timerEnabled = FALSE
  /\ events = <<>>
  /\ thrown = NoErr
  /\ lastOp = [name |-> "new", slot |-> -1, again |-> FALSE]

\* The manager with MaxSlots slots and two devices that come and go.
Init == InitWith(BOOLEAN)

Next ==
  \/ \E list \in GamepadLists : HostSetGamepads(list)
  \/ \E c \in BOOLEAN : PollGamepads(c, JsUndefined)
  \/ Tick
  \/ \E t \in ThresholdArgs : ManagerSetThresholds(t[1], t[2])

Spec == Init /\ [][Next]_vars

\* The thresholds of the manager and of the wrappers of A and B.
InitPad == InitWith({TRUE})

NextThresholds ==
  \/ \E list \in {<<>>, ListOfA, ListOfAB} : HostSetGamepads(list)
  \/ PollGamepads(TRUE, JsUndefined)
  \/ Tick
  \/ \E t \in ThresholdArgs : ManagerSetThresholds(t[1], t[2])
  \/ \E i \in Slots, t \in ThresholdArgs : PadSetThresholds(i, t[1], t[2])

SpecThresholds == InitPad /\ [][NextThresholds]_vars

\* One wrapper over device A in slot 0: every reading of A's buttons.
NextButtons ==
  \/ \E list \in {<<>>, ListOfA} : HostSetGamepads(list)
  \/ \E b \in ButtonFrames, a \in {RestAxes, PushedAxes} :
       HostSetValues("A", b, a)
  \/ PollGamepads(TRUE, JsUndefined)
  \/ Tick
  \/ \E t \in PadThresholdArgs : PadSetThresholds(0, t[1], t[2])
  \/ PadPoll(0)

SpecButtons == InitPad /\ [][NextButtons]_vars

\* One wrapper over device A in slot 0: every reading of A's axes.
NextAxes ==
  \/ \E list \in {<<>>, ListOfA} : HostSetGamepads(list)
  \/ \E b \in {RestButtons, HalfButtons}, a \in AxisFrames :
       HostSetValues("A", b, a)
  \/ PollGamepads(TRUE, JsUndefined)
  \/ Tick
  \/ \E t \in PadThresholdArgs : PadSetThresholds(0, t[1], t[2])
  \/ PadPoll(0)

SpecAxes == InitPad /\ [][NextAxes]_vars

\* Both passes switched on and off in every way, in any order, over two
\* devices that come, go and swap slots and whose buttons are half pressed
\* or at rest.
OptFlags == {JsUndefined, JsBool(TRUE), JsBool(FALSE)}
ListOfBA == [i \in 0 .. 1 |-> IF i = 0 THEN "B" ELSE "A"]

NextTimer ==
  \/ \E list \in {<<>>, ListOfA, ListOfAB, ListOfBA} : HostSetGamepads(list)
  \/ \E d \in Devices, b \in {RestButtons, HalfButtons} :
       HostSetValues(d, b, RestAxes)
  \/ \E c \in BOOLEAN, g \in OptFlags : PollGamepads(c, g)
  \/ Tick

SpecTimer == InitPad /\ [][NextTimer]_vars

\* A host whose list keeps its one slot: device A is plugged in and
\* unplugged while its buttons move, the passes switched on and off.
ListOfNone == [i \in {0} |-> Null]

NextUnplug ==
  \/ \E list \in {ListOfNone, ListOfA} : HostSetGamepads(list)
  \/ \E b \in {RestButtons, HalfButtons}, a \in {RestAxes, PushedAxes} :
       HostSetValues("A", b, a)
  \/ \E c \in BOOLEAN, g \in OptFlags : PollGamepads(c, g)
  \/ Tick

SpecUnplug == InitPad /\ [][NextUnplug]_vars

\* Thresholds set on the manager and on the wrapper of A between polls.
ManagerThresholdArgs == {<<10, 2>>, <<12, 5>>, <<One + 1, 2>>, <<10, -1>>}

NextFrame ==
  \/ \E list \in {<<>>, ListOfA} : HostSetGamepads(list)
  \/ \E b \in {RestButtons, HalfButtons}, a \in {RestAxes, PushedAxes} :
       HostSetValues("A", b, a)
  \/ PollGamepads(TRUE, JsUndefined)
  \/ Tick
  \/ \E t \in ManagerThresholdArgs : ManagerSetThresholds(t[1], t[2])
  \/ \E t \in PadThresholdArgs : PadSetThresholds(0, t[1], t[2])
  \/ PadPoll(0)

SpecFrame == InitPad /\ [][NextFrame]_vars

\* ------------------------------------------------------------------ claims

\* The range [0.0, 1.0] of a threshold, and of a pair of arguments.
InRange(t) == 0 <= t /\ t <= One
BothInRange(t) == InRange(t[1]) /\ InRange(t[2])

\* The thresholds of a wrapper and the defaults of the manager, as pairs.
Thresholds(pad) == <<pad.buttonThreshold_, pad.joystickThreshold_>>
Defaults == <<defaultButtonThreshold_, defaultJoystickThreshold_>>

\* A step that is the call setThresholds(t[1], t[2]) on the manager or on
\* a wrapper.
SetThresholdsStep(t) ==
  \/ ManagerSetThresholds(t[1], t[2])
  \/ \E i \in Slots : PadSetThresholds(i, t[1], t[2])

\* C1: a setThresholds call, on the manager or on a wrapper, with an
\* argument outside [0.0, 1.0] throws the invalid-threshold error and
\* changes neither the defaults of the manager nor any threshold of any
\* wrapper, whichever argument is the invalid one.
C1_InvalidThresholdChangesNothing ==
  [][\A t \in ThresholdArgs :
       (SetThresholdsStep(t) /\ ~BothInRange(t)) =>
         /\ thrown' \in {ErrButton, ErrJoystick}
         /\ Defaults' = Defaults
         /\ gamepads_' = gamepads_]_vars

\* C1 witness: the manager's setThresholds has just thrown on its second
\* argument (the first was in range) while it holds two wrappers.
C1_Witness ==
  /\ lastOp.name = "manager.setThresholds"
  /\ thrown = ErrJoystick
  /\ DOMAIN gamepads_ = {0, 1}

\* C2: in every reachable state the default thresholds of the manager and
\* the thresholds of every wrapper lie in [0.0, 1.0].
C2_ThresholdsInRange ==
  /\ InRange(defaultButtonThreshold_)
  /\ InRange(defaultJoystickThreshold_)
  /\ \A i \in DOMAIN gamepads_ :
       /\ InRange(gamepads_[i].buttonThreshold_)
       /\ InRange(gamepads_[i].joystickThreshold_)

\* C2 witness: a wrapper's setThresholds has just thrown, and the wrapper
\* and the manager hold thresholds at the ends of the range.
C2_Witness ==
  /\ lastOp.name = "gamepad.setThresholds"
  /\ thrown # NoErr
  /\ Thresholds(gamepads_[lastOp.slot]) = <<0, One>>
  /\ Defaults = <<One, 0>>

\* C3: the manager's setThresholds(b, j) with both arguments in range
\* succeeds, and right after it the defaults and the thresholds of every
\* wrapper held are (b, j); the defaults change in no other step; and a
\* wrapper whose CONNECTED event is dispatched has the defaults as its
\* thresholds when the listeners are called.
C3_ManagerThresholdsReachEveryWrapper ==
  [][/\ \A t \in ThresholdArgs :
          (BothInRange(t) /\ ManagerSetThresholds(t[1], t[2])) =>
            /\ thrown' = NoErr
            /\ Defaults' = t
            /\ \A i \in DOMAIN gamepads_' : Thresholds(gamepads_'[i]) = t
     /\ Defaults' # Defaults =>
          \E t \in ThresholdArgs :
            BothInRange(t) /\ ManagerSetThresholds(t[1], t[2])
     /\ \A k \in DOMAIN events' :
          events'[k].event.type = CONNECTED =>
            /\ <<events'[k].seen.buttonThreshold_,
                 events'[k].seen.joystickThreshold_>> = Defaults'
            /\ Thresholds(gamepads_'[events'[k].index]) = Defaults']_vars

\* C3 witness: a tick has just connected a wrapper whose listeners see the
\* thresholds (0.0, 1.0) of an earlier setThresholds of the manager, while
\* another wrapper holds thresholds of its own.
C3_Witness ==
  /\ lastOp.name = "tick"
  /\ \E k \in DOMAIN events :
       /\ events[k].event.type = CONNECTED
       /\ events[k].seen.buttonThreshold_ = 0
       /\ events[k].seen.joystickThreshold_ = One
  /\ \E i \in DOMAIN gamepads_ : Thresholds(gamepads_[i]) = <<One, 0>>

\* The places in log of the dispatches of an event of one of the types that
\* relates to the wrapper at slot, and of those created at index i.
EventsOf(log, slot, types) ==
  {k \in DOMAIN log :
     log[k].event.gamepad.slot = slot /\ log[k].event.type \in types}
EventsAt(log, slot, types, i) ==
  {k \in EventsOf(log, slot, types) : log[k].index = i}

\* A step in which the wrapper held at slot is polled once: poll() is
\* called on it, or a tick runs the state pass over it (the connection pass
\* of the tick not having put a new wrapper in its place).
PollStep(slot) ==
  /\ slot \in DOMAIN gamepads_
  /\ \/ lastOp'.name = "gamepad.poll" /\ lastOp'.slot = slot
     \/ /\ lastOp'.name = "tick"
        /\ \E k \in DOMAIN tickListeners : tickListeners[k] = ButtonListener
        /\ EventsOf(events', slot, {CONNECTED}) = {}

\* C4: in one poll, for every button index i, one BUTTON_DOWN with value 1
\* is dispatched if the new value is >= the button threshold and the stored
\* value is below it, and none otherwise; one BUTTON_UP with value 0 if the
\* new value is below the threshold and the stored value is >= it, and none
\* otherwise; never both for one index.
C4_ButtonEventsIffCrossing ==
  [][\A slot \in Slots : PollStep(slot) =>
       LET pad == gamepads_[slot]
           new == rawButtons[pad.gamepad_]
           old == pad.lastButtonSnapshot_
           t == pad.buttonThreshold_
       IN  \A i \in ButtonIdx :
             LET downs == EventsAt(events', slot, {BUTTON_DOWN}, i)
                 ups == EventsAt(events', slot, {BUTTON_UP}, i)
             IN  /\ Cardinality(downs) =
                      IF new[i] >= t /\ old[i] < t THEN 1 ELSE 0
                 /\ Cardinality(ups) =
                      IF new[i] < t /\ old[i] >= t THEN 1 ELSE 0
                 /\ \A k \in downs : events'[k].event.value = 1
                 /\ \A k \in ups : events'[k].event.value = 0
                 /\ Cardinality(downs) + Cardinality(ups) <= 1]_vars

\* C4 witness: one poll() has dispatched a BUTTON_UP for button 0 and a
\* BUTTON_DOWN for button 1, the latter at a value equal to the threshold.
C4_Witness ==
  /\ lastOp.name = "gamepad.poll"
  /\ EventsAt(events, 0, {BUTTON_UP}, 0) # {}
  /\ EventsAt(events, 0, {BUTTON_DOWN}, 1) # {}
  /\ rawButtons["A"][1] = gamepads_[0].buttonThreshold_

\* C5: in one poll, for every axis index i, one JOYSTICK_MOVED is
\* dispatched if the new value differs from the stored value by more than
\* the joystick threshold, and none otherwise.
C5_AxisEventIffMovedBeyondThreshold ==
  [][\A slot \in Slots : PollStep(slot) =>
       LET pad == gamepads_[slot]
           new == rawAxes[pad.gamepad_]
           old == pad.lastAxisSnapshot_
           t == pad.joystickThreshold_
       IN  \A i \in AxisIdx :
             Cardinality(EventsAt(events', slot, {JOYSTICK_MOVED}, i)) =
               IF Abs(new[i] - old[i]) > t THEN 1 ELSE 0]_vars

\* C5 witness: a poll() has dispatched nothing while axis 0 stands away
\* from its stored value by exactly the joystick threshold.
C5_Witness ==
  /\ lastOp.name = "gamepad.poll"
  /\ events = <<>>
  /\ gamepads_[0].joystickThreshold_ > 0
  /\ Abs(rawAxes["A"][0] - gamepads_[0].lastAxisSnapshot_[0]) =
       gamepads_[0].joystickThreshold_

\* C6: every event dispatched by poll() names the element that triggered
\* it, index 0 included: a BUTTON_DOWN or BUTTON_UP carries the index of its
\* button and -1 as axis, a JOYSTICK_MOVED carries the index of its axis and
\* -1 as button.
C6_EventsNameTheirElement ==
  \A k \in DOMAIN events :
    LET e == events[k].event
    IN  /\ e.type \in {BUTTON_DOWN, BUTTON_UP} =>
             e.button = events[k].index /\ e.axis = -1
        /\ e.type = JOYSTICK_MOVED =>
             e.axis = events[k].index /\ e.button = -1

\* C7: the value of a JOYSTICK_MOVED dispatched under a joystick threshold
\* t > 0 for the axis value v is the multiple of t nearest to v, the greater
\* one when v lies midway between two.
C7_JoystickValueIsNearestMultiple ==
  \A k \in DOMAIN events :
    LET e == events[k].event
        t == events[k].seen.joystickThreshold_
        v == rawAxes[e.gamepad.raw][events[k].index]
    IN  (e.type = JOYSTICK_MOVED /\ t > 0) =>
          /\ e.value % t = 0
          /\ 2 * Abs(e.value - v) <= t
          /\ 2 * Abs(e.value - v) = t => e.value > v

\* C7 witness: under the threshold 0.1 one poll has reported the axis value
\* 0.25 as 0.3 and the axis value -0.25 as -0.2.
C7_Witness ==
  \E k, l \in DOMAIN events :
    /\ events[k].event.type = JOYSTICK_MOVED
    /\ events[l].event.type = JOYSTICK_MOVED
    /\ events[k].seen.joystickThreshold_ = 2
    /\ rawAxes["A"][events[k].index] = 5 /\ events[k].event.value = 6
    /\ rawAxes["A"][events[l].index] = -5 /\ events[l].event.value = -4

\* C8: after one poll the stored axis snapshot is the new axis values if a
\* JOYSTICK_MOVED was dispatched and is unchanged otherwise, the stored
\* button snapshot is the new button values if a button event was
\* dispatched and is unchanged otherwise, and an index has an event exactly
\* when its new value passes the test against the snapshot stored before
\* the poll.
C8_SnapshotsReplacedWholeOrNotAtAll ==
  [][\A slot \in Slots : PollStep(slot) =>
       LET pad == gamepads_[slot]
           axes == rawAxes[pad.gamepad_]
           buttons == rawButtons[pad.gamepad_]
           moved == EventsOf(events', slot, {JOYSTICK_MOVED})
           pressed == EventsOf(events', slot, {BUTTON_DOWN, BUTTON_UP})
       IN  /\ gamepads_'[slot].lastAxisSnapshot_ =
                IF moved # {} THEN axes ELSE pad.lastAxisSnapshot_
           /\ gamepads_'[slot].lastButtonSnapshot_ =
                IF pressed # {} THEN buttons ELSE pad.lastButtonSnapshot_
           /\ \A i \in AxisIdx :
                (\E k \in moved : events'[k].index = i) <=>
                  Abs(axes[i] - pad.lastAxisSnapshot_[i])
                    > pad.joystickThreshold_
           /\ \A i \in ButtonIdx :
                (\E k \in pressed : events'[k].index = i) <=>
                  ((buttons[i] >= pad.buttonThreshold_)
                     # (pad.lastButtonSnapshot_[i] >= pad.buttonThreshold_))
      ]_vars

\* C8 witness: a poll() has dispatched a JOYSTICK_MOVED for axis 0 alone;
\* axis 1, within the threshold of its old value, is stored with its new
\* value all the same, and the buttons, which moved without an event, are
\* not.
C8_Witness ==
  /\ lastOp.name = "gamepad.poll"
  /\ EventsAt(events, 0, {JOYSTICK_MOVED}, 0) # {}
  /\ EventsOf(events, 0, {JOYSTICK_MOVED, BUTTON_DOWN, BUTTON_UP})
       = EventsAt(events, 0, {JOYSTICK_MOVED}, 0)
  /\ gamepads_[0].joystickThreshold_ = 5
  /\ rawAxes["A"][1] = -5
  /\ gamepads_[0].lastAxisSnapshot_ = rawAxes["A"]
  /\ gamepads_[0].lastButtonSnapshot_ # rawButtons["A"]

\* C9: a poll of a wrapper that follows a poll of the same wrapper at once
\* (the same poll() call, or the next tick), so with the same raw values
\* and thresholds, dispatches no button or joystick event of the wrapper
\* and leaves the wrapper, both snapshots included, as it was.
C9_SecondPollIsSilent ==
  [][\A slot \in Slots :
       (PollStep(slot) /\ lastOp'.again) =>
         /\ EventsOf(events', slot,
                     {JOYSTICK_MOVED, BUTTON_DOWN, BUTTON_UP}) = {}
         /\ gamepads_'[slot] = gamepads_[slot]]_vars

\* C9 witness: poll() was called twice in a row on a wrapper whose device
\* stands away from both snapshots, and the second call dispatched nothing.
C9_Witness ==
  /\ lastOp.name = "gamepad.poll"
  /\ lastOp.again
  /\ events = <<>>
  /\ gamepads_[0].lastButtonSnapshot_ # rawButtons["A"]
  /\ gamepads_[0].lastAxisSnapshot_ # rawAxes["A"]

\* C10: a connection pass that finds a raw device B in a slot where it knew
\* another raw device A dispatches the DISCONNECTED event of the wrapper of
\* A and, after it, the CONNECTED event of a wrapper of B, and then holds at
\* the slot a new wrapper of B: B's present values as snapshots, the
\* manager's defaults as thresholds.
C10_ReplacedDeviceDisconnectsThenConnects ==
  [][\A i \in DOMAIN rawGamepads \cap DOMAIN knownRawGamepads_ :
       (/\ lastOp'.name = "tick"
        /\ hasGetGamepads
        /\ \E k \in DOMAIN tickListeners : tickListeners[k] = ConnListener
        /\ knownRawGamepads_[i] # Null
        /\ rawGamepads[i] # Null
        /\ rawGamepads[i] # knownRawGamepads_[i]) =>
         LET A == knownRawGamepads_[i]
             B == rawGamepads[i]
             gone == {k \in EventsOf(events', i, {DISCONNECTED}) :
                        events'[k].event.gamepad.raw = A}
             come == {k \in EventsOf(events', i, {CONNECTED}) :
                        events'[k].event.gamepad.raw = B}
         IN  /\ gone # {}
             /\ Cardinality(come) = 1
             /\ EventsOf(events', i, {CONNECTED, DISCONNECTED})
                  = gone \cup come
             /\ \A k \in gone, l \in come : k < l
             /\ gamepads_'[i] =
                  [gamepad_ |-> B,
                   buttonThreshold_ |-> defaultButtonThreshold_,
                   joystickThreshold_ |-> defaultJoystickThreshold_,
                   lastButtonSnapshot_ |-> rawButtons[B],
                   lastAxisSnapshot_ |-> rawAxes[B]]]_vars

\* C10 witness: one tick has dispatched the DISCONNECTED of the wrapper of
\* A at slot 0 and the CONNECTED of a wrapper of B at slot 0.
C10_Witness ==
  /\ lastOp.name = "tick"
  /\ \E k, l \in DOMAIN events :
       /\ events[k].event.type = DISCONNECTED
       /\ events[k].event.gamepad = [slot |-> 0, raw |-> "A"]
       /\ events[l].event.type = CONNECTED
       /\ events[l].event.gamepad = [slot |-> 0, raw |-> "B"]
  /\ gamepads_[0].gamepad_ = "B"

\* Whether a pass is subscribed to the timer's tick.
Subscribed(f) == \E k \in DOMAIN tickListeners : tickListeners[k] = f

\* A step in which a connection-detection pass runs on a host that
\* enumerates its devices.
ConnectionPass ==
  lastOp'.name = "tick" /\ hasGetGamepads /\ Subscribed(ConnListener)

\* The slots of the list the pass reads and of the list it knew.
EitherSlots == DOMAIN rawGamepads \cup DOMAIN knownRawGamepads_

\* C11: in a connection-detection pass, every slot that held a raw device
\* and now holds none or another has one DISCONNECTED event object,
\* delivered on the slot's wrapper and then on the manager; every slot
\* that now holds a raw device other than the known one has its CONNECTED
\* event delivered on the manager alone.
C11_DisconnectedOnBothConnectedOnManager ==
  [][ConnectionPass =>
       \A i \in EitherSlots :
         LET known == At(knownRawGamepads_, i)
             now == At(rawGamepads, i)
             gone == EventsOf(events', i, {DISCONNECTED})
             come == EventsOf(events', i, {CONNECTED})
         IN  /\ (known # Null /\ now # known) =>
                  \E k \in gone :
                    /\ gone = {k, k + 1}
                    /\ events'[k].target = "gamepad"
                    /\ events'[k + 1].target = "manager"
                    /\ events'[k].obj = events'[k + 1].obj
                    /\ events'[k].event.gamepad.raw = known
             /\ (now # Null /\ now # known) =>
                  \E k \in come :
                    /\ come = {k}
                    /\ events'[k].target = "manager"
                    /\ events'[k].event.gamepad.raw = now]_vars

\* C12: a connection-detection pass covers the slots of both lists: a slot
\* beyond the end of the new list that held a raw device has a DISCONNECTED
\* event in that pass.
C12_PassCoversSlotsOfBothLists ==
  [][ConnectionPass =>
       \A i \in EitherSlots :
         (i \notin DOMAIN rawGamepads /\ knownRawGamepads_[i] # Null) =>
           EventsOf(events', i, {DISCONNECTED}) # {}]_vars

\* C13: getGamepad(slot) returns a wrapper only for a slot in which the
\* last connection-detection pass saw a raw device.
C13_WrapperOnlyWhileDevicePresent ==
  \A i \in Slots :
    getGamepad(i) # JsUndefined => At(knownRawGamepads_, i) # Null

\* How many times the listener f is held in listeners.
CountIn(listeners, f) ==
  Cardinality({k \in DOMAIN listeners : listeners[k] = f})

\* The state-polling flag a call of pollGamepads(c, g) stands for: g when
\* it is given, c when it is omitted.
StateFlag(c, g) == IF g.t = "boolean" THEN g.b ELSE c

\* C14: after a call of pollGamepads the connection-detection pass is
\* subscribed to the tick once if the call's connection flag was true and
\* not at all otherwise, the state-polling pass once if the call's
\* (effective) state flag was true and not at all otherwise, whatever was
\* subscribed before; nothing but a call of pollGamepads changes the
\* subscriptions.
C14_SubscriptionsFollowLastCall ==
  [][/\ \A c \in BOOLEAN, g \in OptFlags :
          PollGamepads(c, g) =>
            /\ CountIn(tickListeners', ConnListener) = IF c THEN 1 ELSE 0
            /\ CountIn(tickListeners', ButtonListener) =
                 IF StateFlag(c, g) THEN 1 ELSE 0
     /\ lastOp'.name # "pollGamepads" => tickListeners' = tickListeners
    ]_vars

\* C14 witness: a tick has run with the state-polling pass alone
\* subscribed, after connection polling had been on (a wrapper exists) and
\* was switched off (the list the host returns is not the known one).
C14_Witness ==
  /\ lastOp.name = "tick"
  /\ tickListeners = <<ButtonListener>>
  /\ gamepads_ # <<>>
  /\ rawGamepads # knownRawGamepads_

\* C15: a call of pollGamepads leaves the timer running if and only if one
\* of its two flags enables a pass, nothing else starts or stops the timer,
\* and so the timer runs exactly while a pass is subscribed.
C15_TimerRunsIffAPassIsEnabled ==
  [][/\ \A c \in BOOLEAN, g \in OptFlags :
          PollGamepads(c, g) => (timerEnabled' <=> (c \/ StateFlag(c, g)))
     /\ lastOp'.name # "pollGamepads" => timerEnabled' = timerEnabled
     /\ timerEnabled' <=> (tickListeners' # <<>>)]_vars

\* C15 witness: the timer is stopped by a call of pollGamepads after it
\* had run (a tick created a wrapper).
C15_Witness ==
  /\ lastOp.name = "pollGamepads"
  /\ ~timerEnabled
  /\ tickListeners = <<>>
  /\ gamepads_ # <<>>

\* C16: pollGamepads(c) with the state flag omitted subscribes or
\* unsubscribes both passes as c says; pollGamepads(c, g) with a boolean g
\* subscribes the connection-detection pass as c says and the
\* state-polling pass as g says.
C16_OmittedStateFlagMirrorsConnectionFlag ==
  [][\A c \in BOOLEAN :
       /\ PollGamepads(c, JsUndefined) =>
            /\ Subscribed(ConnListener)' <=> c
            /\ Subscribed(ButtonListener)' <=> c
       /\ \A g \in BOOLEAN :
            PollGamepads(c, JsBool(g)) =>
              /\ Subscribed(ConnListener)' <=> c
              /\ Subscribed(ButtonListener)' <=> g]_vars

\* C16 witness: after a call of pollGamepads the connection-detection pass
\* is subscribed and the state-polling pass is not, which only a call with
\* the flags (true, false) brings about.
C16_Witness ==
  /\ lastOp.name = "pollGamepads"
  /\ Subscribed(ConnListener)
  /\ ~Subscribed(ButtonListener)
  /\ timerEnabled

\* C17: in a tick every CONNECTED and DISCONNECTED event of the
\* connection-detection pass is dispatched before every event of the
\* state-polling pass, in whatever order the passes were enabled.
C17_ConnectionPassBeforeStatePass ==
  lastOp.name = "tick" =>
    \A k, l \in DOMAIN events :
      (/\ events[k].event.type \in {CONNECTED, DISCONNECTED}
       /\ events[l].event.type \in {BUTTON_DOWN, BUTTON_UP, JOYSTICK_MOVED})
        => k < l

\* C18: on a host without the enumeration capability a connection-detection
\* pass throws nothing, dispatches nothing and leaves the wrappers and the
\* known raw devices as they were: none of either, whatever the host holds.
C18_NoCapabilityNoDevices ==
  [][(/\ lastOp'.name = "tick"
      /\ ~hasGetGamepads
      /\ Subscribed(ConnListener)) =>
       /\ thrown' = NoErr
       /\ events' = <<>>
       /\ gamepads_' = gamepads_ /\ gamepads_' = <<>>
       /\ knownRawGamepads_' = knownRawGamepads_
       /\ knownRawGamepads_' = <<>>]_vars

\* C18 witness: two ticks in a row have run the connection-detection pass
\* on a host without the capability while a device is plugged in.
C18_Witness ==
  /\ ~hasGetGamepads
  /\ lastOp.name = "tick" /\ lastOp.again
  /\ Subscribed(ConnListener)
  /\ \E i \in DOMAIN rawGamepads : rawGamepads[i] # Null

\* C19: in a connection-detection pass a slot whose raw device is the known
\* one (none in both lists included) has no CONNECTED or DISCONNECTED event,
\* and what is held at the slot stays: the same wrapper of the same device
\* with the same thresholds, and, when the state-polling pass does not run
\* in the tick, the same snapshots.
C19_UnchangedSlotIsLeftAlone ==
  [][ConnectionPass =>
       \A i \in Slots :
         At(rawGamepads, i) = At(knownRawGamepads_, i) =>
           /\ EventsOf(events', i, {CONNECTED, DISCONNECTED}) = {}
           /\ (i \in DOMAIN gamepads_') <=> (i \in DOMAIN gamepads_)
           /\ i \in DOMAIN gamepads_ =>
                /\ gamepads_'[i].gamepad_ = gamepads_[i].gamepad_
                /\ Thresholds(gamepads_'[i]) = Thresholds(gamepads_[i])
                /\ ~Subscribed(ButtonListener) =>
                     gamepads_'[i] = gamepads_[i]]_vars

\* C19 witness: a tick has run the connection-detection pass alone over an
\* unchanged list; the wrapper at slot 0 still holds the button snapshot it
\* had, which is no longer what the device reads.
C19_Witness ==
  /\ lastOp.name = "tick"
  /\ tickListeners = <<ConnListener>>
  /\ hasGetGamepads
  /\ events = <<>>
  /\ 0 \in DOMAIN rawGamepads /\ rawGamepads[0] # Null
  /\ rawGamepads = knownRawGamepads_
  /\ gamepads_[0].lastButtonSnapshot_ # rawButtons[gamepads_[0].gamepad_]

\* C20: in one tick the CONNECTED and DISCONNECTED events are dispatched
\* from the highest slot to the lowest, the events of the state-polling
\* pass from the lowest slot to the highest, and a wrapper the state pass
\* polls is polled once: one button event for each button that crossed the
\* threshold.
C20_SlotOrderWithinATick ==
  [][lastOp'.name = "tick" =>
       /\ \A k, l \in DOMAIN events' :
            k < l =>
              LET e == events'[k].event
                  f == events'[l].event
              IN  /\ (/\ e.type \in {CONNECTED, DISCONNECTED}
                      /\ f.type \in {CONNECTED, DISCONNECTED})
                       => e.gamepad.slot >= f.gamepad.slot
                  /\ (/\ e.type \in {BUTTON_DOWN, BUTTON_UP, JOYSTICK_MOVED}
                      /\ f.type \in {BUTTON_DOWN, BUTTON_UP, JOYSTICK_MOVED})
                       => e.gamepad.slot <= f.gamepad.slot
       /\ \A i \in Slots :
            PollStep(i) =>
              LET pad == gamepads_[i]
                  t == pad.buttonThreshold_
              IN  \A b \in ButtonIdx :
                    Cardinality(EventsAt(events', i,
                                         {BUTTON_DOWN, BUTTON_UP}, b)) =
                      IF (rawButtons[pad.gamepad_][b] >= t)
                           # (pad.lastButtonSnapshot_[b] >= t)
                      THEN 1 ELSE 0]_vars

\* C20 witness: one tick has dispatched button events for slot 0 and then
\* for slot 1, and connection events for slot 1 and then for slot 0.
C20_Witness ==
  /\ lastOp.name = "tick"
  /\ \E k, l \in DOMAIN events :
       /\ k < l
       /\ events[k].event.type = BUTTON_DOWN
       /\ events[k].event.gamepad.slot = 0
       /\ events[l].event.type = BUTTON_DOWN
       /\ events[l].event.gamepad.slot = 1
  /\ \E k, l \in DOMAIN events :
       /\ k < l
       /\ events[k].event.type = CONNECTED
       /\ events[k].event.gamepad.slot = 1
       /\ events[l].event.type = DISCONNECTED
       /\ events[l].event.gamepad.slot = 0

\* The events of the state-polling pass.
PollTypes == {BUTTON_DOWN, BUTTON_UP, JOYSTICK_MOVED}

\* C21: once the DISCONNECTED event of a wrapper is dispatched, no
\* BUTTON_DOWN, BUTTON_UP or JOYSTICK_MOVED event of that wrapper follows:
\* not later in the same tick, and not in a later tick in which the slot is
\* still empty (a wrapper held at a slot whose known raw device is null is
\* one whose DISCONNECTED event an earlier pass dispatched, the host's list
\* never losing a slot).
C21_NoPollAfterDisconnected ==
  [][lastOp'.name = "tick" =>
       \A i \in Slots :
         /\ \A k, l \in DOMAIN events' :
              (/\ k < l
               /\ events'[k].event.type = DISCONNECTED
               /\ events'[k].event.gamepad.slot = i
               /\ events'[l].event.type \in PollTypes
               /\ events'[l].event.gamepad = events'[k].event.gamepad)
                => \E c \in EventsOf(events', i, {CONNECTED}) : k < c /\ c < l
         /\ (/\ i \in DOMAIN gamepads_
             /\ i \in DOMAIN knownRawGamepads_
             /\ knownRawGamepads_[i] = Null
             /\ At(rawGamepads, i) = Null)
              => EventsOf(events', i, PollTypes) = {}]_vars

\* C22: at the end of a connection-detection pass the known list is the
\* list the pass read, and every slot with a known raw device holds a
\* wrapper of that device; a slot has one CONNECTED event, of the wrapper
\* it now holds, exactly when its known raw device became another device,
\* and at most one DISCONNECTED event object, and then of the wrapper of the
\* device known before, which is known there no longer, and ahead of the
\* CONNECTED event of the wrapper that takes its place.
C22_KnownListAndWrappersAgree ==
  [][ConnectionPass =>
       /\ knownRawGamepads_' = rawGamepads
       /\ \A i \in DOMAIN knownRawGamepads_' :
            knownRawGamepads_'[i] # Null =>
              /\ i \in DOMAIN gamepads_'
              /\ gamepads_'[i].gamepad_ = knownRawGamepads_'[i]
       /\ \A i \in Slots :
            LET was == At(knownRawGamepads_, i)
                is == At(knownRawGamepads_', i)
                come == EventsOf(events', i, {CONNECTED})
                gone == EventsOf(events', i, {DISCONNECTED})
            IN  /\ Cardinality(come) = IF is # Null /\ is # was THEN 1 ELSE 0
                /\ \A k \in come : events'[k].event.gamepad.raw = is
                /\ Cardinality({events'[k].obj : k \in gone}) <= 1
                /\ \A k \in gone :
                     /\ was # Null /\ is # was
                     /\ events'[k].event.gamepad.raw = was
                     /\ gamepads_[i].gamepad_ = was
                     /\ \A l \in come : k < l]_vars

\* C22 witness: a tick has found device A moved from slot 0 to slot 1: the
\* wrapper at slot 0 has its DISCONNECTED event, a wrapper at slot 1 its
\* CONNECTED event.
C22_Witness ==
  /\ lastOp.name = "tick"
  /\ knownRawGamepads_ = rawGamepads
  /\ EventsOf(events, 0, {DISCONNECTED}) # {}
  /\ EventsOf(events, 1, {CONNECTED}) # {}
  /\ 1 \in DOMAIN gamepads_ /\ gamepads_[1].gamepad_ = "A"

\* C23: while a wrapper stays at its slot with its button threshold, the
\* BUTTON_DOWN and BUTTON_UP events of each button alternate.  The stored
\* value of a button lies below the threshold or not; in every step one
\* BUTTON_DOWN of the button is dispatched exactly when its stored value
\* goes from below to not below, one BUTTON_UP exactly when it goes from not
\* below to below, and none when it stays on its side, so a second
\* BUTTON_DOWN needs a BUTTON_UP before it and the other way round.
C23_ButtonEventsAlternate ==
  [][\A slot \in DOMAIN gamepads_ \cap DOMAIN gamepads_' :
       (/\ EventsOf(events', slot, {CONNECTED}) = {}
        /\ gamepads_'[slot].buttonThreshold_ = gamepads_[slot].buttonThreshold_)
         =>
         LET t == gamepads_[slot].buttonThreshold_
             old == gamepads_[slot].lastButtonSnapshot_
             new == gamepads_'[slot].lastButtonSnapshot_
         IN  \A i \in ButtonIdx :
               /\ Cardinality(EventsAt(events', slot, {BUTTON_DOWN}, i)) =
                    IF old[i] < t /\ ~(new[i] < t) THEN 1 ELSE 0
               /\ Cardinality(EventsAt(events', slot, {BUTTON_UP}, i)) =
                    IF ~(old[i] < t) /\ new[i] < t THEN 1 ELSE 0]_vars

\* C23 witness: a poll() has dispatched a BUTTON_DOWN for button 1 alone
\* and thereby stored button 0, held down all along, at its new value 0.6.
C23_Witness ==
  /\ lastOp.name = "gamepad.poll"
  /\ EventsOf(events, 0, PollTypes) = EventsAt(events, 0, {BUTTON_DOWN}, 1)
  /\ EventsAt(events, 0, {BUTTON_DOWN}, 1) # {}
  /\ gamepads_[0].buttonThreshold_ = 10
  /\ gamepads_[0].lastButtonSnapshot_[0] = 12

\* Whether the operation just done polled the wrapper held at slot: poll()
\* on it, or a tick with the state-polling pass subscribed.
JustPolled(slot) ==
  \/ lastOp.name = "gamepad.poll" /\ lastOp.slot = slot
  \/ lastOp.name = "tick" /\ Subscribed(ButtonListener)

\* C24: right after a poll of a wrapper every axis of its device reads
\* within the joystick threshold of the stored axis value, and every button
\* reads on the same side of the button threshold as the stored button
\* value.
C24_AfterPollDeviceIsNearSnapshots ==
  \A slot \in DOMAIN gamepads_ :
    JustPolled(slot) =>
      LET pad == gamepads_[slot]
          axes == rawAxes[pad.gamepad_]
          buttons == rawButtons[pad.gamepad_]
      IN  /\ \A i \in AxisIdx :
               Abs(axes[i] - pad.lastAxisSnapshot_[i]) <= pad.joystickThreshold_
          /\ \A i \in ButtonIdx :
               (buttons[i] < pad.buttonThreshold_)
                 <=> (pad.lastButtonSnapshot_[i] < pad.buttonThreshold_)

\* C24 witness: after a poll() under the thresholds 0.6 and 0.25 the first
\* axis reads 0.25 away from its stored value and the buttons read 0.5 where
\* 0.3 is stored: both moved, neither far enough for an event.
C24_Witness ==
  /\ lastOp.name = "gamepad.poll"
  /\ gamepads_[0].joystickThreshold_ = 5
  /\ gamepads_[0].buttonThreshold_ = 12
  /\ Abs(rawAxes["A"][0] - gamepads_[0].lastAxisSnapshot_[0]) = 5
  /\ rawButtons["A"] = HalfButtons
  /\ gamepads_[0].lastButtonSnapshot_ = RestButtons

\* The names of the two setThresholds operations.
SetThresholdsOps == {"manager.setThresholds", "gamepad.setThresholds"}

\* C25: a setThresholds call, on the manager or on a wrapper, dispatches
\* nothing and leaves the snapshots and the device of every wrapper, the
\* set of slots that hold a wrapper, the known raw devices, the
\* subscriptions and the timer as they were; a failing call leaves the
\* thresholds too, a call on a wrapper leaves the manager's defaults and the
\* other wrappers; after a successful call the thresholds are the
\* arguments, and a poll that follows compares against them.
C25_SetThresholdsChangesOnlyThresholds ==
  [][/\ lastOp'.name \in SetThresholdsOps =>
          /\ events' = <<>>
          /\ UNCHANGED <<knownRawGamepads_, tickListeners, timerEnabled,
                         rawGamepads, rawButtons, rawAxes>>
          /\ DOMAIN gamepads_' = DOMAIN gamepads_
          /\ \A i \in DOMAIN gamepads_ :
               /\ gamepads_'[i].gamepad_ = gamepads_[i].gamepad_
               /\ gamepads_'[i].lastButtonSnapshot_
                    = gamepads_[i].lastButtonSnapshot_
               /\ gamepads_'[i].lastAxisSnapshot_
                    = gamepads_[i].lastAxisSnapshot_
               /\ (lastOp'.name = "gamepad.setThresholds" /\ lastOp'.slot # i)
                    => gamepads_'[i] = gamepads_[i]
          /\ thrown' # NoErr => gamepads_' = gamepads_ /\ Defaults' = Defaults
          /\ lastOp'.name = "gamepad.setThresholds" => Defaults' = Defaults
     /\ \A t \in ManagerThresholdArgs :
          (ManagerSetThresholds(t[1], t[2]) /\ BothInRange(t)) =>
            /\ Defaults' = t
            /\ \A i \in DOMAIN gamepads_ : Thresholds(gamepads_'[i]) = t
     /\ \A t \in PadThresholdArgs :
          (PadSetThresholds(0, t[1], t[2]) /\ BothInRange(t)) =>
            Thresholds(gamepads_'[0]) = t
     /\ \A slot \in Slots :
          (/\ lastOp.name \in SetThresholdsOps
           /\ thrown = NoErr
           /\ PollStep(slot)) =>
            LET pad == gamepads_[slot]
                buttons == rawButtons[pad.gamepad_]
                axes == rawAxes[pad.gamepad_]
            IN  /\ \A i \in ButtonIdx :
                     Cardinality(EventsAt(events', slot,
                                          {BUTTON_DOWN, BUTTON_UP}, i)) =
                       IF (buttons[i] < pad.buttonThreshold_)
                            # (pad.lastButtonSnapshot_[i]
                                 < pad.buttonThreshold_)
                       THEN 1 ELSE 0
                /\ \A i \in AxisIdx :
                     Cardinality(EventsAt(events', slot,
                                          {JOYSTICK_MOVED}, i)) =
                       IF Abs(axes[i] - pad.lastAxisSnapshot_[i])
                            > pad.joystickThreshold_
                       THEN 1 ELSE 0
                /\ \A k \in EventsOf(events', slot, PollTypes) :
                     events'[k].seen =
                       [buttonThreshold_ |-> pad.buttonThreshold_,
                        joystickThreshold_ |-> pad.joystickThreshold_]
    ]_vars

\* C25 witness: the manager's setThresholds(0.6, 0.25) has succeeded while
\* the timer runs and the wrapper of A holds snapshots that are not what
\* the device reads; the wrapper has the new thresholds and the snapshots
\* it had.
C25_Witness ==
  /\ lastOp.name = "manager.setThresholds"
  /\ thrown = NoErr
  /\ timerEnabled
  /\ 0 \in DOMAIN gamepads_
  /\ Thresholds(gamepads_[0]) = <<12, 5>>
  /\ gamepads_[0].lastButtonSnapshot_ # rawButtons["A"]
  /\ gamepads_[0].lastAxisSnapshot_ # rawAxes["A"]
====
